---- MODULE Spec2Model ----
(***************************************************************************)
(* Model of apps/sms/js/attachment_renderer.js: one AttachmentRenderer     *)
(* instance, its two rendering strategies (RENDERERS.draft, an iframe, and *)
(* RENDERERS.base, a div), the promise chain of render() and the host      *)
(* events it waits for (the metadata probe and the iframe's load event).   *)
(*                                                                         *)
(* Strings that the code only concatenates are TLA+ strings; the           *)
(* attachment name, which the code indexes, is a sequence of characters.   *)
(* DOM nodes live in the sequence `nodes'; a node is known by its index,   *)
(* and 0 stands for null.                                                  *)
(***************************************************************************)
EXTENDS Integers, Sequences, FiniteSets, TLC

VARIABLES
  _attachment,           \* AttachmentRenderer#_attachment
  _renderer,             \* AttachmentRenderer#_renderer: "draft" or "base"
  _attachmentContainer,  \* AttachmentRenderer#_attachmentContainer: node or 0
  nodes,                 \* the DOM nodes created so far
  renders,               \* one record per render() invocation
  returned,              \* what the calls of getAttachmentContainer() returned
  createCalls,           \* calls of RENDERERS.*.createAttachmentContainer
  markCalls,             \* times the class and the data attribute were applied
  loads,                 \* load events the host has fired, up to MaxLoads
  markupOut              \* result of a direct _getBaseMarkup call

vars == <<_attachment, _renderer, _attachmentContainer, nodes, renders,
          returned, createCalls, markCalls, loads, markupOut>>

----------------------------------------------------------------------------
(* Bounds of the model *)

MaxRenders == 2
MaxLoads == 2
MaxNameLen == 4

(* Program constants *)

MAX_THUMBNAIL_GENERATION_SIZE == 1572864
THUMBNAIL_SIZE == 100

RenderIds == 1..MaxRenders

Min(a, b) == IF a < b THEN a ELSE b

----------------------------------------------------------------------------
(* Inputs *)

Types == {"img", "audio"}

\* A blob has a byte size; width and height are what the metadata probe
\* finds in it when it can decode it. The sizes are around the thumbnail
\* ceiling.
Blobs ==
  {[size |-> 500, width |-> 50, height |-> 400],
   [size |-> MAX_THUMBNAIL_GENERATION_SIZE - 1, width |-> 400, height |-> 300],
   [size |-> MAX_THUMBNAIL_GENERATION_SIZE, width |-> 400, height |-> 300]}

Names == {<<"a", "/", "c">>}

Attachments ==
  [type : Types, blob : Blobs, name : Names, isDraft : BOOLEAN]

\* Attachment#size is a getter over the blob's size
AttachmentSize(attachment) == attachment.blob.size

----------------------------------------------------------------------------
(* getSizeForL10n *)

\* Number#toFixed(1) of num/den, for den a power of two (the quotient is
\* then exact as a double): the tenths nearest to the quotient, the larger
\* one on a tie, printed with one digit after the point.
ToFixed1(num, den) ==
  LET tenths == (num * 20 + den) \div (2 * den)
  IN  ToString(tenths \div 10) \o "." \o ToString(tenths % 10)

\* the megabyte label from 1024 KB on
getSizeForL10n_From1024KB(size) ==
  IF size < 1024 * 1024
    THEN [l10nId |-> "attachmentSize",
          l10nArgs |-> [n |-> ToFixed1(size, 1024)]]
    ELSE [l10nId |-> "attachmentSizeMB",
          l10nArgs |-> [n |-> ToFixed1(size, 1024 * 1024)]]

\* sizeKB < 1000 for sizeKB = size / 1024, without the division
getSizeForL10n(size) ==
  IF size < 1000 * 1024
    THEN [l10nId |-> "attachmentSize",
          l10nArgs |-> [n |-> ToFixed1(size, 1024)]]
    ELSE [l10nId |-> "attachmentSizeMB",
          l10nArgs |-> [n |-> ToFixed1(size, 1024 * 1024)]]

----------------------------------------------------------------------------
(* _getBaseMarkup *)

\* String#indexOf('/') in its place: the first '/'
LastIndexOfSlash_First(name) ==
  LET hits == {i \in 1..Len(name) : name[i] = "/"}
  IN  IF hits = {} THEN -1
      ELSE (CHOOSE i \in hits : \A j \in hits : i <= j) - 1

\* String#lastIndexOf('/'): the 0-based index of the last '/', or -1
LastIndexOfSlash(name) ==
  LET hits == {i \in 1..Len(name) : name[i] = "/"}
  IN  IF hits = {} THEN -1
      ELSE (CHOOSE i \in hits : \A j \in hits : j <= i) - 1

\* String#slice(begin) for 0 <= begin <= length
Slice(name, begin) == SubSeq(name, begin + 1, Len(name))

\* JSON.stringify of { n: <string> }
JSONStringify(l10nArgs) == "{\"n\":\"" \o l10nArgs.n \o "\"}"

NoMarkup ==
  [templateId |-> "", type |-> "", errorClass |-> "", fileName |-> <<>>,
   sizeL10nId |-> "", sizeL10nArgs |-> ""]

\* The markup is the template's id with the values interpolated into it
_getBaseMarkup(templateId, hasError) ==
  LET sizeL10n == getSizeForL10n(_attachment.blob.size)
  IN  [templateId   |-> templateId,
       type         |-> _attachment.type,
       errorClass   |-> IF hasError THEN "corrupted" ELSE "",
       fileName     |-> Slice(_attachment.name,
                              LastIndexOfSlash(_attachment.name) + 1),
       sizeL10nId   |-> sizeL10n.l10nId,
       sizeL10nArgs |-> JSONStringify(sizeL10n.l10nArgs)]

\* attachment-preview-tmpl holds a node of class "thumbnail",
\* attachment-nopreview-tmpl holds none
HasThumbnailNode(markup) == markup.templateId = "attachment-preview-tmpl"

----------------------------------------------------------------------------
(* DOM nodes *)

NewNode(tag) ==
  [tag            |-> tag,
   sandbox        |-> "",
   src            |-> "",
   classList      |-> {},
   attachmentType |-> "",
   html           |-> NoMarkup,   \* inner content of a div or of a body
   bg             |-> "",         \* backgroundImage of its thumbnail node
   listeners      |-> <<>>,       \* load listeners, by render() invocation
   body           |-> 0,          \* body of an iframe's document
   clicks         |-> 0]          \* click listeners on an iframe's document

\* RENDERERS.draft.createAttachmentContainer
DraftCreateAttachmentContainer ==
  [NewNode("iframe") EXCEPT !.sandbox = "allow-same-origin"]

\* RENDERERS.base.createAttachmentContainer
BaseCreateAttachmentContainer == NewNode("div")

_createAttachmentContainer ==
  LET attachmentContainer ==
        IF _renderer = "draft" THEN DraftCreateAttachmentContainer
                               ELSE BaseCreateAttachmentContainer
  IN  [attachmentContainer EXCEPT
         !.classList = @ \cup {"attachment-container"},
         !.attachmentType = _attachment.type]

----------------------------------------------------------------------------
(* The renderer *)

\* a constructor that ignores isDraft
AttachmentRenderer_AlwaysBase(attachment) ==
  [_attachment          |-> attachment,
   _renderer            |-> "base",
   _attachmentContainer |-> 0]

\* new AttachmentRenderer(attachment)
AttachmentRenderer(attachment) ==
  [_attachment          |-> attachment,
   _renderer            |-> IF attachment.isDraft THEN "draft" ELSE "base",
   _attachmentContainer |-> 0]

IdleRender ==
  [pc        |-> "idle",
   container |-> 0,            \* render()'s local attachmentContainer
   reason    |-> "",           \* rejection reason of the thumbnail promise
   url       |-> "",           \* resolution value of the thumbnail promise
   data      |-> [markup |-> NoMarkup, cssClass |-> "", url |-> ""],
   rt        |-> "none",       \* the promise renderTo returned
   rtError   |-> "",           \* what that promise rejected with
   content   |-> 0,            \* the node that promise resolved with
   probes    |-> 0,            \* calls of ImageUtils.getSizeAndType
   log       |-> <<>>]         \* what this invocation has done, in order

Constructed(attachment) ==
  LET this == AttachmentRenderer(attachment)
  IN  /\ _attachment = this._attachment
      /\ _renderer = this._renderer
      /\ _attachmentContainer = this._attachmentContainer
      /\ nodes = <<>>
      /\ renders = [r \in RenderIds |-> IdleRender]
      /\ returned = {}
      /\ createCalls = 0
      /\ markCalls = 0
      /\ loads = 0
      /\ markupOut = NoMarkup

Init == \E attachment \in Attachments : Constructed(attachment)

\* getAttachmentContainer() without the memo: a container per call
getAttachmentContainer_NoMemo(caller) ==
  /\ nodes' = Append(nodes, _createAttachmentContainer)
  /\ _attachmentContainer' = Len(nodes) + 1
  /\ createCalls' = createCalls + 1
  /\ markCalls' = markCalls + 1
  /\ returned' = returned \cup
       {[node |-> _attachmentContainer',
         creator |-> IF _attachmentContainer = 0 THEN caller ELSE ""]}

\* The body of getAttachmentContainer(), called by `caller'; the node it
\* returns is _attachmentContainer', and `returned' keeps it, with the caller
\* when this call created it
getAttachmentContainer(caller) ==
  /\ IF _attachmentContainer = 0
       THEN /\ nodes' = Append(nodes, _createAttachmentContainer)
            /\ _attachmentContainer' = Len(nodes) + 1
            /\ createCalls' = createCalls + 1
            /\ markCalls' = markCalls + 1
       ELSE UNCHANGED <<nodes, _attachmentContainer, createCalls, markCalls>>
  /\ returned' = returned \cup
       {[node |-> _attachmentContainer',
         creator |-> IF _attachmentContainer = 0 THEN caller ELSE ""]}

\* The caller asks for the container
GetAttachmentContainer ==
  /\ getAttachmentContainer("caller")
  /\ UNCHANGED <<_attachment, _renderer, renders, loads, markupOut>>

\* the ceiling taken as the largest size that gets a thumbnail
Eligible_Inclusive ==
  /\ _attachment.type = "img"
  /\ AttachmentSize(_attachment) <= MAX_THUMBNAIL_GENERATION_SIZE

Eligible ==
  /\ _attachment.type = "img"
  /\ AttachmentSize(_attachment) < MAX_THUMBNAIL_GENERATION_SIZE

\* render() refusing to start while an earlier invocation is in flight
Render_Guarded(r) ==
  /\ renders[r].pc = "idle"
  /\ \A q \in RenderIds : q < r => renders[q].pc \in {"resolved", "rejected"}
  /\ getAttachmentContainer("render")
  /\ renders' = [renders EXCEPT ![r] =
       IF Eligible
         THEN [@ EXCEPT !.pc = "probing",
                        !.container = _attachmentContainer',
                        !.probes = @ + 1,
                        !.log = @ \o <<"container", "probe">>]
         ELSE [@ EXCEPT !.pc = "thumbRejected",
                        !.container = _attachmentContainer',
                        !.reason = "undefined",
                        !.log = @ \o <<"container">>]]
  /\ UNCHANGED <<_attachment, _renderer, loads, markupOut>>

\* The synchronous part of render(): the container, then the thumbnail
\* promise, which is the probe's or an already rejected one
Render(r) ==
  /\ renders[r].pc = "idle"
  /\ \A q \in RenderIds : q < r => renders[q].pc # "idle"
  /\ getAttachmentContainer("render")
  /\ renders' = [renders EXCEPT ![r] =
       IF Eligible
         THEN [@ EXCEPT !.pc = "probing",
                        !.container = _attachmentContainer',
                        !.probes = @ + 1,
                        !.log = @ \o <<"container", "probe">>]
         ELSE [@ EXCEPT !.pc = "thumbRejected",
                        !.container = _attachmentContainer',
                        !.reason = "undefined",
                        !.log = @ \o <<"container">>]]
  /\ UNCHANGED <<_attachment, _renderer, loads, markupOut>>

----------------------------------------------------------------------------
(* getThumbnail *)

\* what ImageUtils.getSizeAndType resolves with
ProbeData(blob) == [width |-> blob.width, height |-> blob.height]

\* what it rejects with: nothing, or an error
ProbeReasons == {"undefined", "error"}

\* ImageUtils.Downsample.sizeNoMoreThan(num / den): the URL fragment that
\* asks for a downsampled decode, empty when no downsampling is needed
SizeNoMoreThan(num, den) == IF num >= den THEN "" ELSE "#-moz-samplesize"

\* window.URL.createObjectURL(blob)
CreateObjectURL(blob) == "blob:" \o ToString(blob.size)

\* getSizeResolve(data)
getSizeResolve(data) ==
  LET blob == _attachment.blob
      fragment == SizeNoMoreThan(THUMBNAIL_SIZE, Min(data.width, data.height))
  IN  CreateObjectURL(blob) \o fragment

\* The probe resolves and getSizeResolve runs; when it throws (one of its
\* collaborators does) the thumbnail promise rejects with the exception
ProbeResolve(r) ==
  /\ renders[r].pc = "probing"
  /\ \E throws \in BOOLEAN :
       renders' = [renders EXCEPT ![r] =
         IF throws
           THEN [@ EXCEPT !.pc = "thumbRejected",
                          !.reason = "error",
                          !.log = @ \o <<"thumbnail:failed">>]
           ELSE [@ EXCEPT !.pc = "thumbResolved",
                          !.url = getSizeResolve(ProbeData(_attachment.blob)),
                          !.log = @ \o <<"thumbnail">>]]
  /\ UNCHANGED <<_attachment, _renderer, _attachmentContainer, nodes,
                 returned, createCalls, markCalls, loads, markupOut>>

\* The probe rejects; getThumbnail's then() has no rejection handler, so
\* the thumbnail promise rejects with the probe's reason
ProbeReject(r) ==
  /\ renders[r].pc = "probing"
  /\ \E reason \in ProbeReasons :
       renders' = [renders EXCEPT ![r] =
         [@ EXCEPT !.pc = "thumbRejected",
                   !.reason = reason,
                   !.log = @ \o <<"thumbnail:failed">>]]
  /\ UNCHANGED <<_attachment, _renderer, _attachmentContainer, nodes,
                 returned, createCalls, markCalls, loads, markupOut>>

----------------------------------------------------------------------------
(* render(): the promise chain *)

\* !!error
Truthy(error) == error # "undefined"

\* the preview data without the url
PreviewData_NoUrl(url) ==
  [markup   |-> _getBaseMarkup("attachment-preview-tmpl", FALSE),
   cssClass |-> "preview",
   url      |-> "undefined"]

\* what then(function(url) {...}) returns
PreviewData(url) ==
  [markup   |-> _getBaseMarkup("attachment-preview-tmpl", FALSE),
   cssClass |-> "preview",
   url      |-> url]

\* what catch(function(error) {...}) returns; it has no url
FallbackData(error) ==
  [markup   |-> _getBaseMarkup("attachment-nopreview-tmpl", Truthy(error)),
   cssClass |-> "nopreview",
   url      |-> "undefined"]

\* then(function(url) {...}): the preview markup. An exception here rejects
\* the promise the following catch() is attached to.
PreviewMarkup(r) ==
  /\ renders[r].pc = "thumbResolved"
  /\ \E throws \in BOOLEAN :
       renders' = [renders EXCEPT ![r] =
         IF throws
           THEN [@ EXCEPT !.pc = "thumbRejected",
                          !.reason = "error",
                          !.log = @ \o <<"throw:preview">>]
           ELSE [@ EXCEPT !.pc = "markupBuilt",
                          !.data = PreviewData(renders[r].url),
                          !.log = @ \o <<"markup:preview">>]]
  /\ UNCHANGED <<_attachment, _renderer, _attachmentContainer, nodes,
                 returned, createCalls, markCalls, loads, markupOut>>

\* catch(function(error) {...}): the no-preview markup
FallbackMarkup(r) ==
  /\ renders[r].pc = "thumbRejected"
  /\ \E throws \in BOOLEAN :
       renders' = [renders EXCEPT ![r] =
         IF throws
           THEN [@ EXCEPT !.pc = "rejected",
                          !.log = @ \o <<"throw:nopreview", "rejected">>]
           ELSE [@ EXCEPT !.pc = "markupBuilt",
                          !.data = FallbackData(renders[r].reason),
                          !.log = @ \o <<"markup:nopreview">>]]
  /\ UNCHANGED <<_attachment, _renderer, _attachmentContainer, nodes,
                 returned, createCalls, markCalls, loads, markupOut>>

\* a renderTo that resolves without assigning the markup
BaseRenderTo_NoContent(baseMarkup, node) == node

\* RENDERERS.base.renderTo: the markup becomes the container's content
\* (its former children, thumbnail node included, are gone); the promise it
\* returns is already resolved with the container
BaseRenderTo(baseMarkup, node) == [node EXCEPT !.html = baseMarkup, !.bg = ""]

\* RENDERERS.draft.renderTo navigating without a load listener
DraftRenderTo_NoListener(r, node) == [node EXCEPT !.src = "about:blank"]

\* RENDERERS.draft.renderTo, up to its return: the load listener of
\* invocation r, then the navigation; the promise it returns is pending
DraftRenderTo(r, node) ==
  [node EXCEPT !.listeners = Append(@, r), !.src = "about:blank"]

\* then(function(data) {...}) putting the class on the container only once
\* renderTo has returned
Delegate_ClassAfterRenderTo(r) ==
  /\ renders[r].pc = "markupBuilt"
  /\ LET attachmentContainer == renders[r].container
         data == renders[r].data
         classed == [nodes[attachmentContainer] EXCEPT
                       !.classList = @ \cup {data.cssClass}]
     IN  \E throws \in BOOLEAN :
           /\ nodes' = [nodes EXCEPT ![attachmentContainer] =
                IF throws THEN @
                ELSE IF _renderer = "draft" THEN DraftRenderTo(r, classed)
                ELSE BaseRenderTo(data.markup, classed)]
           /\ renders' = [renders EXCEPT ![r] =
                IF throws
                  THEN [@ EXCEPT !.pc = "rejected",
                                 !.log = @ \o <<"renderTo", "throw:renderTo",
                                                "rejected">>]
                ELSE IF _renderer = "draft"
                  THEN [@ EXCEPT !.pc = "loading",
                                 !.rt = "pending",
                                 !.log = @ \o <<"renderTo", "class:container">>]
                  ELSE [@ EXCEPT !.pc = "delegated",
                                 !.rt = "resolved",
                                 !.content = attachmentContainer,
                                 !.log = @ \o <<"renderTo", "class:container",
                                                "content",
                                                "renderTo:resolved">>]]
  /\ UNCHANGED <<_attachment, _renderer, _attachmentContainer, returned,
                 createCalls, markCalls, loads, markupOut>>

\* then(function(data) {...}) without its return: render()'s promise
\* resolves when renderTo has been called, whatever becomes of its promise
Delegate_NoReturn(r) ==
  /\ renders[r].pc = "markupBuilt"
  /\ LET attachmentContainer == renders[r].container
         data == renders[r].data
         classed == [nodes[attachmentContainer] EXCEPT
                       !.classList = @ \cup {data.cssClass}]
     IN  \E throws \in BOOLEAN :
           /\ nodes' = [nodes EXCEPT ![attachmentContainer] =
                IF throws THEN classed
                ELSE IF _renderer = "draft" THEN DraftRenderTo(r, classed)
                ELSE BaseRenderTo(data.markup, classed)]
           /\ renders' = [renders EXCEPT ![r] =
                IF throws
                  THEN [@ EXCEPT !.pc = "rejected",
                                 !.log = @ \o <<"class:container", "renderTo",
                                                "throw:renderTo", "rejected">>]
                  ELSE [@ EXCEPT !.pc = "resolved",
                                 !.log = @ \o <<"class:container", "renderTo",
                                                "resolved">>]]
  /\ UNCHANGED <<_attachment, _renderer, _attachmentContainer, returned,
                 createCalls, markCalls, loads, markupOut>>

\* then(function(data) {...}): the class on the container, then renderTo.
\* An exception thrown by renderTo rejects render()'s promise.
Delegate(r) ==
  /\ renders[r].pc = "markupBuilt"
  /\ LET attachmentContainer == renders[r].container
         data == renders[r].data
         classed == [nodes[attachmentContainer] EXCEPT
                       !.classList = @ \cup {data.cssClass}]
     IN  \E throws \in BOOLEAN :
           /\ nodes' = [nodes EXCEPT ![attachmentContainer] =
                IF throws THEN classed
                ELSE IF _renderer = "draft" THEN DraftRenderTo(r, classed)
                ELSE BaseRenderTo(data.markup, classed)]
           /\ renders' = [renders EXCEPT ![r] =
                IF throws
                  THEN [@ EXCEPT !.pc = "rejected",
                                 !.log = @ \o <<"class:container", "renderTo",
                                                "throw:renderTo", "rejected">>]
                ELSE IF _renderer = "draft"
                  THEN [@ EXCEPT !.pc = "loading",
                                 !.rt = "pending",
                                 !.log = @ \o <<"class:container", "renderTo">>]
                  ELSE [@ EXCEPT !.pc = "delegated",
                                 !.rt = "resolved",
                                 !.content = attachmentContainer,
                                 !.log = @ \o <<"class:container", "renderTo",
                                                "content",
                                                "renderTo:resolved">>]]
  /\ UNCHANGED <<_attachment, _renderer, _attachmentContainer, returned,
                 createCalls, markCalls, loads, markupOut>>

----------------------------------------------------------------------------
(* The load event of the iframe *)

\* where the load handler may throw: nowhere, before the markup is injected
\* (contentDocument, Template, interpolate), in translateFragment, or while
\* the click listener is attached
LoadStages == {"none", "template", "translate", "click"}

Range(seq) == {seq[i] : i \in 1..Len(seq)}

\* a load handler that stays registered
RemoveListener_Keep(listeners, r) == listeners

RemoveListener(listeners, r) == SelectSeq(listeners, LAMBDA q : q # r)

\* onload resolving the deferred with the iframe instead of the body
onload_ResolveContainer(st, n, r, stage) ==
  LET b == Len(st.nodes) + 1
      body == [NewNode("body") EXCEPT !.html = st.renders[r].data.markup]
      removed == [st.nodes EXCEPT ![n].listeners = RemoveListener(@, r)]
      injected == Append([removed EXCEPT ![n].body = b], body)
      listening == [injected EXCEPT ![n].clicks = @ + 1]
      pending == st.renders[r].rt = "pending"
      e == "exception:" \o stage
      did == IF stage = "template" THEN <<"load", "throw:load", e>>
             ELSE IF stage = "none" THEN <<"load", "content", "click">>
             ELSE <<"load", "content", "throw:load", e>>
      settled == IF ~pending THEN <<>>
                 ELSE IF stage = "none" THEN <<"renderTo:resolved">>
                 ELSE <<"renderTo:rejected", "rejected">>
  IN  [nodes |-> IF stage = "template" THEN removed
                 ELSE IF stage = "none" THEN listening
                 ELSE injected,
       renders |-> [st.renders EXCEPT ![r] =
         [@ EXCEPT !.pc = IF ~pending THEN @
                          ELSE IF stage = "none" THEN "delegated"
                          ELSE "rejected",
                   !.rt = IF ~pending THEN @
                          ELSE IF stage = "none" THEN "resolved"
                          ELSE "rejected",
                   !.rtError = IF pending /\ stage # "none" THEN e ELSE @,
                   !.content = IF pending /\ stage = "none" THEN n ELSE @,
                   !.log = @ \o did \o settled]]]

\* onload that removes itself once its work is done, not before it
onload_RemoveAtEnd(st, n, r, stage) ==
  LET b == Len(st.nodes) + 1
      body == [NewNode("body") EXCEPT !.html = st.renders[r].data.markup]
      injected == Append([st.nodes EXCEPT ![n].body = b], body)
      listening == [injected EXCEPT ![n].clicks = @ + 1,
                                    ![n].listeners = RemoveListener(@, r)]
      pending == st.renders[r].rt = "pending"
      e == "exception:" \o stage
      did == IF stage = "template" THEN <<"load", "throw:load", e>>
             ELSE IF stage = "none" THEN <<"load", "content", "click">>
             ELSE <<"load", "content", "throw:load", e>>
      settled == IF ~pending THEN <<>>
                 ELSE IF stage = "none" THEN <<"renderTo:resolved">>
                 ELSE <<"renderTo:rejected", "rejected">>
  IN  [nodes |-> IF stage = "template" THEN st.nodes
                 ELSE IF stage = "none" THEN listening
                 ELSE injected,
       renders |-> [st.renders EXCEPT ![r] =
         [@ EXCEPT !.pc = IF ~pending THEN @
                          ELSE IF stage = "none" THEN "delegated"
                          ELSE "rejected",
                   !.rt = IF ~pending THEN @
                          ELSE IF stage = "none" THEN "resolved"
                          ELSE "rejected",
                   !.rtError = IF pending /\ stage # "none" THEN e ELSE @,
                   !.content = IF pending /\ stage = "none" THEN b ELSE @,
                   !.log = @ \o did \o settled]]]

\* onload of invocation r on iframe n, throwing at `stage'; e is what it
\* throws. st holds the nodes and the invocations. Assigning
\* documentElement.innerHTML gives the document a new body; settling the
\* deferred a second time does nothing.
onload(st, n, r, stage) ==
  LET b == Len(st.nodes) + 1
      body == [NewNode("body") EXCEPT !.html = st.renders[r].data.markup]
      removed == [st.nodes EXCEPT ![n].listeners = RemoveListener(@, r)]
      injected == Append([removed EXCEPT ![n].body = b], body)
      listening == [injected EXCEPT ![n].clicks = @ + 1]
      pending == st.renders[r].rt = "pending"
      e == "exception:" \o stage
      did == IF stage = "template" THEN <<"load", "throw:load", e>>
             ELSE IF stage = "none" THEN <<"load", "content", "click">>
             ELSE <<"load", "content", "throw:load", e>>
      settled == IF ~pending THEN <<>>
                 ELSE IF stage = "none" THEN <<"renderTo:resolved">>
                 ELSE <<"renderTo:rejected", "rejected">>
  IN  [nodes |-> IF stage = "template" THEN removed
                 ELSE IF stage = "none" THEN listening
                 ELSE injected,
       renders |-> [st.renders EXCEPT ![r] =
         [@ EXCEPT !.pc = IF ~pending THEN @
                          ELSE IF stage = "none" THEN "delegated"
                          ELSE "rejected",
                   !.rt = IF ~pending THEN @
                          ELSE IF stage = "none" THEN "resolved"
                          ELSE "rejected",
                   !.rtError = IF pending /\ stage # "none" THEN e ELSE @,
                   !.content = IF pending /\ stage = "none" THEN b ELSE @,
                   !.log = @ \o did \o settled]]]

\* The listeners registered when the event is dispatched run in the order
\* of their registration
RECURSIVE Dispatch(_, _, _, _)
Dispatch(st, n, listeners, stageOf) ==
  IF listeners = <<>> THEN st
  ELSE Dispatch(onload(st, n, Head(listeners), stageOf[Head(listeners)]),
                n, Tail(listeners), stageOf)

\* The host fires a load event on an iframe container: the one a navigation
\* ends with, or one more (at most MaxLoads are counted)
Load ==
  /\ \E n \in 1..Len(nodes) :
       /\ nodes[n].tag = "iframe"
       /\ nodes[n].listeners # <<>> \/ loads < MaxLoads
       /\ loads' = Min(loads + 1, MaxLoads)
       /\ \E stageOf \in [Range(nodes[n].listeners) -> LoadStages] :
            LET st == Dispatch([nodes |-> nodes, renders |-> renders], n,
                               nodes[n].listeners, stageOf)
            IN  /\ nodes' = st.nodes
                /\ renders' = st.renders
  /\ UNCHANGED <<_attachment, _renderer, _attachmentContainer, returned,
                 createCalls, markCalls, markupOut>>

----------------------------------------------------------------------------
(* render(): after renderTo *)

\* thumbnailNode.style.backgroundImage
BackgroundImage(url) == "url(\"" \o url \o "\")"

\* then(function(contentContainer) {...}) toggling the class on the content
\* node instead of adding it
Decorate_Toggle(r) ==
  /\ renders[r].pc = "delegated"
  /\ LET contentContainer == renders[r].content
         data == renders[r].data
         thumbnailNode == HasThumbnailNode(nodes[contentContainer].html)
     IN  \E throws \in BOOLEAN :
           IF throws
             THEN /\ renders' = [renders EXCEPT ![r] =
                       [@ EXCEPT !.pc = "rejected",
                                 !.log = @ \o <<"throw:decorate", "rejected">>]]
                  /\ UNCHANGED nodes
             ELSE /\ nodes' = [nodes EXCEPT ![contentContainer] =
                       [@ EXCEPT !.classList = IF data.cssClass \in @
                                                 THEN @ \ {data.cssClass}
                                                 ELSE @ \cup {data.cssClass},
                                 !.bg = IF thumbnailNode
                                          THEN BackgroundImage(data.url)
                                          ELSE @]]
                  /\ renders' = [renders EXCEPT ![r] =
                       [@ EXCEPT !.pc = "resolved",
                                 !.log = @ \o (IF thumbnailNode
                                                 THEN <<"class:content", "bg",
                                                        "resolved">>
                                                 ELSE <<"class:content",
                                                        "resolved">>)]]
  /\ UNCHANGED <<_attachment, _renderer, _attachmentContainer, returned,
                 createCalls, markCalls, loads, markupOut>>

\* then(function(contentContainer) {...}): the class on the content node
\* and the thumbnail's background; render()'s promise resolves when it
\* returns and rejects when it throws
Decorate(r) ==
  /\ renders[r].pc = "delegated"
  /\ LET contentContainer == renders[r].content
         data == renders[r].data
         thumbnailNode == HasThumbnailNode(nodes[contentContainer].html)
     IN  \E throws \in BOOLEAN :
           IF throws
             THEN /\ renders' = [renders EXCEPT ![r] =
                       [@ EXCEPT !.pc = "rejected",
                                 !.log = @ \o <<"throw:decorate", "rejected">>]]
                  /\ UNCHANGED nodes
             ELSE /\ nodes' = [nodes EXCEPT ![contentContainer] =
                       [@ EXCEPT !.classList = @ \cup {data.cssClass},
                                 !.bg = IF thumbnailNode
                                          THEN BackgroundImage(data.url)
                                          ELSE @]]
                  /\ renders' = [renders EXCEPT ![r] =
                       [@ EXCEPT !.pc = "resolved",
                                 !.log = @ \o (IF thumbnailNode
                                                 THEN <<"class:content", "bg",
                                                        "resolved">>
                                                 ELSE <<"class:content",
                                                        "resolved">>)]]
  /\ UNCHANGED <<_attachment, _renderer, _attachmentContainer, returned,
                 createCalls, markCalls, loads, markupOut>>

----------------------------------------------------------------------------
(* The renderer's behaviours *)

\* _getBaseMarkup called on its own
GetBaseMarkup ==
  /\ \E templateId \in {"attachment-preview-tmpl", "attachment-nopreview-tmpl"},
        hasError \in BOOLEAN :
       markupOut' = _getBaseMarkup(templateId, hasError)
  /\ UNCHANGED <<_attachment, _renderer, _attachmentContainer, nodes, renders,
                 returned, createCalls, markCalls, loads>>

Next ==
  \/ GetAttachmentContainer
  \/ \E r \in RenderIds : Render(r)
  \/ \E r \in RenderIds : ProbeResolve(r)
  \/ \E r \in RenderIds : ProbeReject(r)
  \/ \E r \in RenderIds : PreviewMarkup(r)
  \/ \E r \in RenderIds : FallbackMarkup(r)
  \/ \E r \in RenderIds : Delegate(r)
  \/ Load
  \/ \E r \in RenderIds : Decorate(r)

Spec == Init /\ [][Next]_vars

\* The callbacks of invocation r's promise chain: the settlement of the
\* probe and the reactions queued behind it
Step(r) ==
  \/ ProbeResolve(r)
  \/ ProbeReject(r)
  \/ PreviewMarkup(r)
  \/ FallbackMarkup(r)
  \/ Delegate(r)
  \/ Decorate(r)

\* The attachments of the settlement runs: an image the probe is run on and
\* an audio clip it is not, as a draft and as a message
LiveAttachments == {a \in Attachments : a.blob.size = 500}

InitLive == \E attachment \in LiveAttachments : Constructed(attachment)

\* What happens once the caller has the renderer: its render() calls, the
\* callbacks of their chains and the host's load events
NextLive ==
  \/ \E r \in RenderIds : Render(r)
  \/ \E r \in RenderIds : Step(r)
  \/ Load

\* The renderer in a host whose probe settles, whose job queue runs every
\* reaction of a settled promise, and whose iframe fires the load event of
\* a navigation
SpecLive ==
  /\ InitLive
  /\ [][NextLive]_vars
  /\ \A r \in RenderIds : WF_vars(Step(r))
  /\ WF_vars(Load)

----------------------------------------------------------------------------
(* The markup of every attachment *)

Chars == {"a", "/", "."}

NameInputs ==
  UNION {[1..k -> Chars] : k \in 0..MaxNameLen}
    \cup {<<"a", "/", "b", "/", "c", ".", "p", "n", "g">>,
          <<"c", ".", "p", "n", "g">>}

\* byte sizes around the places where the label changes
SizeInputs ==
  (0..300) \cup (1023890..1024060) \cup (1048570..1048580)
    \cup {500, 1500000, 1572864, 2000000}

MarkupAttachments ==
  [type : {"img"}, name : {<<"c">>}, isDraft : {FALSE},
   blob : [size : SizeInputs, width : {400}, height : {300}]]
    \cup [type : {"img"}, name : NameInputs, isDraft : {FALSE},
          blob : [size : {500}, width : {400}, height : {300}]]

InitMarkup == \E attachment \in MarkupAttachments : Constructed(attachment)

NextMarkup == GetBaseMarkup

SpecMarkup == InitMarkup /\ [][NextMarkup]_vars

----------------------------------------------------------------------------
(* Properties *)

Started(r) == renders[r].pc # "idle"

\* invocation r is the only render() call made on the instance
Only(r) == \A q \in RenderIds \ {r} : ~Started(q)

Has(r, e) == \E i \in DOMAIN renders[r].log : renders[r].log[i] = e

Count(r, e) ==
  Cardinality({i \in DOMAIN renders[r].log : renders[r].log[i] = e})

\* exceptions thrown by the collaborators of render() and renderTo
Throws ==
  {"throw:preview", "throw:nopreview", "throw:renderTo", "throw:load",
   "throw:decorate"}

Threw(r) == \E i \in DOMAIN renders[r].log : renders[r].log[i] \in Throws

\* an image below 1.5 MiB
ImageBelowCeiling ==
  _attachment.type = "img" /\ _attachment.blob.size < 1572864

\* C1: over any sequence of getAttachmentContainer() and render() calls,
\* every call gets the same container node, the strategy created a
\* container once, and the class "attachment-container" and the attachment
\* type were applied once.
C1_ContainerCreatedOnce ==
  /\ createCalls <= 1
  /\ markCalls <= 1
  /\ \A e \in returned : e.node # 0 /\ e.node = _attachmentContainer
  /\ Cardinality({e \in returned : e.creator # ""}) <= 1
  /\ \A r \in RenderIds :
       Started(r) => renders[r].container = _attachmentContainer
  /\ returned = {} => createCalls = 0 /\ markCalls = 0
  /\ returned # {} =>
       /\ createCalls = 1
       /\ markCalls = 1
       /\ Cardinality({n \in DOMAIN nodes : nodes[n].tag # "body"}) = 1
       /\ "attachment-container" \in nodes[_attachmentContainer].classList
       /\ nodes[_attachmentContainer].attachmentType = _attachment.type

\* render() made the container, and the accessor, called after it, returned
\* the same node
C1_Witness ==
  /\ Started(1)
  /\ Only(1)
  /\ returned = {[node |-> 1, creator |-> "render"],
                 [node |-> 1, creator |-> ""]}

\* C2: for an image below 1.5 MiB whose probe resolves with its
\* dimensions, render() (the only one on the instance, none of its
\* collaborators throwing) has called the probe, does not reject, puts
\* "preview" on the container and on the content node, and sets the
\* thumbnail's background image to the derived URL, which is not empty.
C2_EligibleImagePreview ==
  \A r \in RenderIds :
    /\ (ImageBelowCeiling /\ Started(r)) => renders[r].probes = 1
    /\ (ImageBelowCeiling /\ Only(r) /\ Has(r, "thumbnail") /\ ~Threw(r)) =>
         /\ renders[r].pc # "rejected"
         /\ renders[r].url # ""
         /\ renders[r].data.cssClass \in {"", "preview"}
         /\ renders[r].pc \in {"loading", "delegated", "resolved"} =>
              "preview" \in nodes[renders[r].container].classList
         /\ renders[r].pc = "resolved" =>
              /\ "preview" \in nodes[renders[r].content].classList
              /\ nodes[renders[r].content].bg =
                   "url(\"" \o renders[r].url \o "\")"

C2_Witness ==
  \E r \in RenderIds :
    /\ ImageBelowCeiling
    /\ Only(r)
    /\ ~Threw(r)
    /\ renders[r].pc = "resolved"
    /\ renders[r].probes = 1
    /\ nodes[renders[r].content].bg = "url(\"" \o renders[r].url \o "\")"

\* C3: for an image of 1.5 MiB or more, and for any attachment that is not
\* an image, render() never calls the probe, its markup is the no-preview
\* one without the "corrupted" marker, and (none of its collaborators
\* throwing) it does not reject and resolves with "nopreview" on the
\* container and on the content node.
C3_IneligibleNoProbe ==
  \A r \in RenderIds :
    (~ImageBelowCeiling /\ Started(r)) =>
      /\ renders[r].probes = 0
      /\ ~Has(r, "thumbnail")
      /\ ~Has(r, "thumbnail:failed")
      /\ ~Threw(r) => renders[r].pc # "rejected"
      /\ renders[r].data.cssClass # "" =>
           /\ renders[r].data.cssClass = "nopreview"
           /\ renders[r].data.markup.templateId = "attachment-nopreview-tmpl"
           /\ renders[r].data.markup.errorClass = ""
      /\ renders[r].pc = "resolved" =>
           /\ "nopreview" \in nodes[renders[r].container].classList
           /\ "nopreview" \in nodes[renders[r].content].classList
           /\ "preview" \notin nodes[renders[r].content].classList

\* an image of exactly 1.5 MiB, rendered
C3_Witness ==
  \E r \in RenderIds :
    /\ _attachment.type = "img"
    /\ _attachment.blob.size = 1572864
    /\ renders[r].pc = "resolved"
    /\ renders[r].probes = 0

\* C4: for an image below 1.5 MiB whose thumbnail derivation fails,
\* whatever the rejection reason, a rejection without a reason included,
\* render() does not reject on that account, its decoration class is
\* "nopreview" and its markup carries the "corrupted" marker.
C4_ProbeFailureCorrupted ==
  \A r \in RenderIds :
    (ImageBelowCeiling /\ Has(r, "thumbnail:failed")) =>
      /\ ~Threw(r) => renders[r].pc # "rejected"
      /\ renders[r].data.cssClass # "" =>
           /\ renders[r].data.cssClass = "nopreview"
           /\ renders[r].data.markup.errorClass = "corrupted"

\* C5: an exception thrown while the preview markup or the no-preview
\* markup is built, by renderTo, or while the content node is decorated,
\* is not recovered: nothing but the rejection of render() follows it, and
\* in particular no no-preview markup.
C5_ThrowsPropagate ==
  \A r \in RenderIds :
    \A i \in DOMAIN renders[r].log :
      renders[r].log[i] \in
          {"throw:preview", "throw:nopreview", "throw:renderTo",
           "throw:decorate"} =>
        /\ renders[r].pc \in {"thumbRejected", "rejected"}
        /\ \A j \in DOMAIN renders[r].log :
             j > i => renders[r].log[j] = "rejected"

\* C6: with the draft strategy, the promise of renderTo is settled only
\* once the load event has fired, and the load handler runs once: it is not
\* registered any more after its first run, and further load events inject
\* no markup, attach no click listener and decorate nothing again.
C6_LoadHandlerOneShot ==
  _renderer = "draft" =>
    /\ \A r \in RenderIds :
         /\ renders[r].rt \in {"resolved", "rejected"} => Has(r, "load")
         /\ renders[r].rt = "pending" => renders[r].pc = "loading"
         /\ renders[r].pc \in {"delegated", "resolved"} =>
              renders[r].rt = "resolved"
         /\ Has(r, "load") =>
              r \notin Range(nodes[renders[r].container].listeners)
         /\ Count(r, "load") <= 1
         /\ Count(r, "content") <= 1
         /\ Count(r, "click") <= 1
         /\ Count(r, "class:content") <= 1
    /\ \A n \in DOMAIN nodes :
         nodes[n].clicks <=
           Cardinality({r \in RenderIds : Has(r, "click")})
    /\ Cardinality({n \in DOMAIN nodes : nodes[n].tag = "body"}) <=
         Cardinality({r \in RenderIds : Has(r, "content")})

\* the handler of the only render() has run and two load events have fired
C6_Witness ==
  /\ _renderer = "draft"
  /\ Only(1)
  /\ renders[1].pc = "resolved"
  /\ Count(1, "load") = 1
  /\ loads = 2
  /\ nodes[renders[1].container].listeners = <<>>

\* C7: with the base strategy, the step that calls renderTo leaves the
\* markup as the container's content and the promise of renderTo resolved
\* with the container itself; no load event is needed for it.
C7_BaseRenderToImmediate ==
  [][\A r \in RenderIds :
       (/\ _renderer = "base"
        /\ renders[r].pc = "markupBuilt"
        /\ renders'[r].pc # "markupBuilt"
        /\ ~Has(r, "throw:renderTo")') =>
         /\ renders'[r].pc = "delegated"
         /\ renders'[r].rt = "resolved"
         /\ renders'[r].content = renders[r].container
         /\ nodes'[renders[r].container].html = renders[r].data.markup
         /\ loads' = loads]_vars

C7_Witness ==
  \E r \in RenderIds :
    /\ _renderer = "base"
    /\ renders[r].pc = "delegated"
    /\ renders[r].rt = "resolved"
    /\ renders[r].content = renders[r].container
    /\ nodes[renders[r].container].html = renders[r].data.markup
    /\ loads = 0

\* C8: the strategy is the draft one exactly when attachment.isDraft was
\* true at construction; no step changes the strategy or the attachment;
\* there is no container before the first accessor or render() call.
C8_StrategyFixed ==
  /\ [](/\ _renderer \in {"draft", "base"}
        /\ _renderer = "draft" <=> _attachment.isDraft
        /\ returned = {} => _attachmentContainer = 0 /\ nodes = <<>>
        /\ _attachmentContainer # 0 =>
             nodes[_attachmentContainer].tag =
               (IF _attachment.isDraft THEN "iframe" ELSE "div"))
  /\ [][_renderer' = _renderer /\ _attachment' = _attachment]_vars

C8_Witness ==
  /\ _attachment.isDraft
  /\ _renderer = "draft"
  /\ renders[1].pc = "resolved"
  /\ nodes[_attachmentContainer].tag = "iframe"

----------------------------------------------------------------------------
(* Properties of the markup *)

Decimal(tenths) == ToString(tenths \div 10) \o "." \o ToString(tenths % 10)

Abs(x) == IF x < 0 THEN -x ELSE x

\* C9: the size label is in kilobytes ("attachmentSize") exactly when the
\* size is below 1024000 bytes and in megabytes ("attachmentSizeMB")
\* otherwise; its value is the size in that unit rounded to one decimal;
\* 500 bytes give "0.5" KB, 1500000 bytes "1.4" MB, 1024000 bytes a
\* megabyte label.
C9_SizeLabel ==
  markupOut # NoMarkup =>
    LET size == _attachment.blob.size
        kb == size < 1024000
        unit == IF kb THEN 1024 ELSE 1048576
        below == (10 * size) \div unit
    IN  /\ markupOut.sizeL10nId =
             (IF kb THEN "attachmentSize" ELSE "attachmentSizeMB")
        /\ \E tenths \in {below, below + 1} :
             /\ 2 * Abs(unit * tenths - 10 * size) <= unit
             /\ markupOut.sizeL10nArgs =
                  "{\"n\":\"" \o Decimal(tenths) \o "\"}"
        /\ size = 500 =>
             /\ markupOut.sizeL10nId = "attachmentSize"
             /\ markupOut.sizeL10nArgs = "{\"n\":\"0.5\"}"
        /\ size = 1500000 =>
             /\ markupOut.sizeL10nId = "attachmentSizeMB"
             /\ markupOut.sizeL10nArgs = "{\"n\":\"1.4\"}"
        /\ size = 1024000 => markupOut.sizeL10nId = "attachmentSizeMB"

C9_Witness ==
  /\ _attachment.blob.size = 1024000
  /\ markupOut.sizeL10nId = "attachmentSizeMB"
  /\ markupOut.sizeL10nArgs = "{\"n\":\"1.0\"}"

\* C10: the file name in the markup is what follows the last '/' of the
\* name, the whole name when it has no '/': it has no '/' itself and the
\* name is it after nothing or after a prefix that ends with '/'.
C10_Basename ==
  markupOut # NoMarkup =>
    LET name == _attachment.name
        fileName == markupOut.fileName
    IN  /\ \E k \in 0..Len(name) :
             /\ fileName = SubSeq(name, k + 1, Len(name))
             /\ k = 0 \/ name[k] = "/"
        /\ \A i \in DOMAIN fileName : fileName[i] # "/"
        /\ (\A i \in DOMAIN name : name[i] # "/") => fileName = name
        /\ name = <<"a", "/", "b", "/", "c", ".", "p", "n", "g">> =>
             fileName = <<"c", ".", "p", "n", "g">>
        /\ name = <<"c", ".", "p", "n", "g">> => fileName = name

C10_Witness ==
  /\ _attachment.name = <<"a", "/", "b", "/", "c", ".", "p", "n", "g">>
  /\ markupOut.fileName = <<"c", ".", "p", "n", "g">>

----------------------------------------------------------------------------
(* Properties of the pipeline *)

\* in the log of invocation r every b comes after some a of `as'
After(r, as, b) ==
  \A j \in DOMAIN renders[r].log :
    renders[r].log[j] = b =>
      \E i \in DOMAIN renders[r].log : i < j /\ renders[r].log[i] \in as

\* the stages of render(), each of which runs at most once
Stages ==
  {"container", "probe", "thumbnail", "thumbnail:failed", "markup:preview",
   "markup:nopreview", "class:container", "renderTo", "renderTo:resolved",
   "renderTo:rejected", "class:content", "bg", "resolved", "rejected"}

\* C11: in one render() the stages come in this order: the thumbnail
\* attempt (when there is one) settles, the markup is built, the class goes
\* on the container, renderTo is called, and only once its promise has
\* resolved the class goes on the content node and the thumbnail gets its
\* background; render() resolves after that and not before, with no stage
\* left out or run twice.
C11_StagesInOrder ==
  \A r \in RenderIds :
    /\ \A e \in Stages : Count(r, e) <= 1
    /\ After(r, {"container"}, "probe")
    /\ After(r, {"probe"}, "thumbnail")
    /\ After(r, {"probe"}, "thumbnail:failed")
    /\ After(r, {"thumbnail"}, "markup:preview")
    /\ Has(r, "probe") => After(r, {"thumbnail", "thumbnail:failed"},
                                "markup:nopreview")
    /\ After(r, {"container"}, "markup:nopreview")
    /\ ~(Has(r, "markup:preview") /\ Has(r, "markup:nopreview"))
    /\ After(r, {"markup:preview", "markup:nopreview"}, "class:container")
    /\ After(r, {"class:container"}, "renderTo")
    /\ After(r, {"renderTo"}, "renderTo:resolved")
    /\ After(r, {"renderTo:resolved"}, "class:content")
    /\ After(r, {"class:content"}, "bg")
    /\ After(r, {"class:content"}, "resolved")
    /\ Has(r, "bg") => After(r, {"bg"}, "resolved")
    /\ renders[r].pc = "resolved" <=> Has(r, "resolved")
    /\ renders[r].pc = "resolved" =>
         /\ renders[r].log[Len(renders[r].log)] = "resolved"
         /\ renders[r].rt = "resolved"
         /\ renders[r].data.markup # NoMarkup
         /\ renders[r].data.cssClass \in
              nodes[renders[r].container].classList
         /\ renders[r].data.cssClass \in nodes[renders[r].content].classList
    /\ Has(r, "renderTo") =>
         renders[r].data.cssClass \in nodes[renders[r].container].classList

\* a draft render() that went through every stage
C11_Witness ==
  \E r \in RenderIds :
    /\ _renderer = "draft"
    /\ renders[r].log =
         <<"container", "probe", "thumbnail", "markup:preview",
           "class:container", "renderTo", "load", "content", "click",
           "renderTo:resolved", "class:content", "bg", "resolved">>

\* C12: when render() has resolved, the node it decorated is the content
\* node renderTo resolved with: with the draft strategy the body that holds
\* its markup, a node other than the container, and with the base strategy
\* the container itself; that node and the container both carry the
\* decoration class of the invocation, and no other body is decorated.
C12_ContentNodeDecorated ==
  /\ \A r \in RenderIds :
       renders[r].pc = "resolved" =>
         /\ renders[r].content # 0
         /\ renders[r].data.cssClass \in nodes[renders[r].content].classList
         /\ renders[r].data.cssClass \in
              nodes[renders[r].container].classList
         /\ _renderer = "draft" =>
              /\ nodes[renders[r].content].tag = "body"
              /\ renders[r].content # renders[r].container
              /\ nodes[renders[r].content].html = renders[r].data.markup
              /\ nodes[renders[r].content].classList =
                   {renders[r].data.cssClass}
         /\ _renderer = "base" => renders[r].content = renders[r].container
  /\ \A n \in DOMAIN nodes :
       /\ (nodes[n].tag = "body" /\ nodes[n].classList # {}) =>
            \E r \in RenderIds :
              renders[r].pc = "resolved" /\ renders[r].content = n
       /\ nodes[n].tag = "iframe" => nodes[n].bg = ""

C12_Witness ==
  \E r \in RenderIds :
    /\ _renderer = "draft"
    /\ renders[r].pc = "resolved"
    /\ nodes[renders[r].content].tag = "body"
    /\ nodes[renders[r].content].classList = {"preview"}
    /\ "preview" \in nodes[renders[r].container].classList

\* what follows "throw:load" in the log of r: the exception the handler threw
Thrown(r) ==
  LET i == CHOOSE i \in DOMAIN renders[r].log : renders[r].log[i] = "throw:load"
  IN  renders[r].log[i + 1]

\* C13: with the draft strategy, an exception thrown in the load handler
\* (before the template is injected, in translateFragment, or while the
\* click listener is attached) rejects the promise of renderTo with that
\* exception, the promise is not resolved as well, and the handler is not
\* registered any more whether it succeeded or failed.
C13_LoadHandlerFailure ==
  _renderer = "draft" =>
    \A r \in RenderIds :
      /\ Has(r, "load") =>
           r \notin Range(nodes[renders[r].container].listeners)
      /\ renders[r].rt = "rejected" <=> Has(r, "throw:load")
      /\ renders[r].rt # "rejected" => renders[r].rtError = ""
      /\ Has(r, "throw:load") =>
           /\ renders[r].rtError = Thrown(r)
           /\ Thrown(r) \in {"exception:template", "exception:translate",
                             "exception:click"}
           /\ renders[r].pc = "rejected"
           /\ renders[r].content = 0
           /\ ~Has(r, "renderTo:resolved")
           /\ ~Has(r, "class:content")
           /\ ~Has(r, "resolved")

\* the handler threw while it attached the click listener
C13_Witness ==
  \E r \in RenderIds :
    /\ _renderer = "draft"
    /\ renders[r].rt = "rejected"
    /\ renders[r].rtError = "exception:click"
    /\ nodes[renders[r].container].listeners = <<>>
    /\ nodes[renders[r].container].body # 0

\* C14: the thumbnail's background image is written only with a derived
\* thumbnail URL: an invocation in the fallback branch writes none, and
\* every background image in the document is that of a derived URL.
C14_BackgroundOnlyWithUrl ==
  /\ \A r \in RenderIds : Has(r, "markup:nopreview") => ~Has(r, "bg")
  /\ \A n \in DOMAIN nodes :
       nodes[n].bg # "" =>
         \E r \in RenderIds :
           /\ renders[r].url # ""
           /\ nodes[n].bg = "url(\"" \o renders[r].url \o "\")"

\* render() r has rejected because renderTo threw or its promise rejected
DelegationFailed(r) ==
  /\ renders[r].pc = "rejected"
  /\ Has(r, "throw:renderTo") \/ Has(r, "renderTo:rejected")

\* C15 as claimed: when render() rejects because the delegation to the
\* strategy failed, the container exists and is the one the accessor
\* returns, its decoration class is not rolled back, the content node got
\* no class and no background, and the container's decoration is
\* "nopreview" alone.
C15_FailedDelegationNopreviewOnly ==
  \A r \in RenderIds :
    (Only(r) /\ DelegationFailed(r)) =>
      /\ _attachmentContainer # 0
      /\ _attachmentContainer = renders[r].container
      /\ ~Has(r, "class:content")
      /\ ~Has(r, "bg")
      /\ nodes[renders[r].container].classList \cap {"preview", "nopreview"}
           = {"nopreview"}

\* C15 amended: when render() rejects because the delegation to the
\* strategy failed, the container exists and is the one the accessor
\* returns, it keeps the decoration class of the branch taken ("preview"
\* when the thumbnail was derived, "nopreview" otherwise), and the
\* invocation has put no class on a content node and written no
\* background; when it is the only invocation, that class and
\* "attachment-container" are all the container carries and no other node
\* is decorated.
C15_FailedDelegationKeepsClass ==
  \A r \in RenderIds :
    DelegationFailed(r) =>
      /\ _attachmentContainer # 0
      /\ _attachmentContainer = renders[r].container
      /\ \E e \in returned : e.node = renders[r].container
      /\ renders[r].data.cssClass \in {"preview", "nopreview"}
      /\ renders[r].data.cssClass \in nodes[renders[r].container].classList
      /\ renders[r].data.cssClass = "preview" <=> Has(r, "markup:preview")
      /\ renders[r].data.cssClass = "nopreview" <=> Has(r, "markup:nopreview")
      /\ ~Has(r, "class:content")
      /\ ~Has(r, "bg")
      /\ ~Has(r, "resolved")
      /\ Only(r) =>
           /\ nodes[renders[r].container].classList =
                {"attachment-container", renders[r].data.cssClass}
           /\ \A n \in DOMAIN nodes :
                /\ nodes[n].bg = ""
                /\ nodes[n].tag = "body" => nodes[n].classList = {}

\* renderTo threw after the preview markup was built
C15_Witness ==
  \E r \in RenderIds :
    /\ Only(r)
    /\ DelegationFailed(r)
    /\ Has(r, "markup:preview")
    /\ nodes[renders[r].container].classList =
         {"attachment-container", "preview"}

\* C16: render() has no in-flight guard: the next invocation can start
\* whatever the earlier ones are doing, and every invocation runs its own
\* pipeline (its own probe when the attachment is eligible, its own
\* delegation and load listener) on the one memoized container.
C16_NoInFlightGuard ==
  \A r \in RenderIds :
    /\ (/\ renders[r].pc = "idle"
        /\ \A q \in RenderIds : q < r => Started(q)) => ENABLED Render(r)
    /\ Started(r) =>
         /\ renders[r].container = _attachmentContainer
         /\ _attachmentContainer # 0
         /\ renders[r].log[1] = "container"
         /\ Count(r, "container") = 1
         /\ renders[r].probes = (IF Eligible THEN 1 ELSE 0)
         /\ Count(r, "probe") = renders[r].probes
         /\ Count(r, "renderTo") <= 1
         /\ renders[r].pc = "loading" =>
              Len(SelectSeq(nodes[renders[r].container].listeners,
                            LAMBDA l : l = r)) = 1

\* two invocations in flight on the same container: the second started
\* before the first settled and both have written the container's content
\* before either decorated it
C16_Witness ==
  /\ Started(1) /\ Started(2)
  /\ renders[1].container = renders[2].container
  /\ renders[1].pc \in {"delegated", "loading"}
  /\ renders[2].pc \in {"delegated", "loading"}
  /\ Has(1, "renderTo") /\ Has(2, "renderTo")

Decorations == {"preview", "nopreview"}

\* C17: while render() has been invoked at most once, no node carries both
\* "preview" and "nopreview", the invocation builds the markup of one
\* branch only and the classes it adds are that branch's; no step removes
\* a class from a node.
C17_OneDecoration ==
  /\ [](\A r \in RenderIds :
          Only(r) =>
            /\ \A n \in DOMAIN nodes :
                 Cardinality(nodes[n].classList \cap Decorations) <= 1
            /\ ~(Has(r, "markup:preview") /\ Has(r, "markup:nopreview"))
            /\ Count(r, "class:container") <= 1
            /\ Count(r, "class:content") <= 1
            /\ \A n \in DOMAIN nodes :
                 nodes[n].classList \cap Decorations \subseteq
                   (IF Has(r, "markup:preview") THEN {"preview"}
                    ELSE IF Has(r, "markup:nopreview") THEN {"nopreview"}
                    ELSE {}))
  /\ [][\A n \in DOMAIN nodes :
          /\ n \in DOMAIN nodes'
          /\ nodes[n].classList \subseteq nodes'[n].classList]_vars

\* the one invocation has resolved with the class on the container and on
\* the content node
C17_Witness ==
  \E r \in RenderIds :
    /\ Only(r)
    /\ renders[r].pc = "resolved"
    /\ renders[r].data.cssClass \in nodes[renders[r].container].classList
    /\ renders[r].data.cssClass \in nodes[renders[r].content].classList
    /\ \A n \in DOMAIN nodes :
         Cardinality(nodes[n].classList \cap Decorations) <= 1

Settled(r) == renders[r].pc \in {"resolved", "rejected"}

\* C18: every render() invocation eventually settles, resolved or
\* rejected, given that the probe settles and, for an iframe container,
\* that the load event fires: from some point on every invocation made has
\* settled, an invocation made stays made and a settled one stays as it
\* settled. An inline container has no load event, so its invocations
\* settle with no host event.
C18_RenderSettles ==
  /\ <>[](\A r \in RenderIds : Started(r) => Settled(r))
  /\ [][\A r \in RenderIds :
          /\ Started(r) => Started(r)'
          /\ Settled(r) => renders'[r] = renders[r]]_vars
  /\ [](_renderer = "base" =>
          /\ ~ENABLED Load
          /\ loads = 0
          /\ \A r \in RenderIds : ~Has(r, "load"))

\* a draft invocation has gone through the probe and the load event and
\* has resolved
C18_Witness ==
  \E r \in RenderIds :
    /\ _renderer = "draft"
    /\ Has(r, "probe")
    /\ Has(r, "load")
    /\ renders[r].pc = "resolved"
====
